---- MODULE Spec2Model ----
(***************************************************************************)
(* The rate-cache-and-lookup engine of mcp-fx-server: the TTL cache of     *)
(* app/cache.py, the currency validation of app/schemas.py, the provider   *)
(* call of app/provider.py and the two tools get_rate and convert of       *)
(* app/main.py.                                                            *)
(*                                                                         *)
(* Strings are sequences of one-character strings.  Floats are integers    *)
(* (rates, amounts, seconds); Python's None is None where a string is      *)
(* expected and NoValue where a dict is expected.                          *)
(***************************************************************************)
EXTENDS Integers, Sequences, FiniteSets, TLC

VARIABLES
    _store,     \* TTLCache._store of the module-level _cache: key -> <<ts, value>>
    now,        \* what time.time() returns
    last,       \* history: a summary of the tool call that returned last
    fill,       \* history: per ordered pair, the last miss-then-fetch that succeeded
    threads,    \* the callers of the cache under concurrency: pc and locals
    written     \* history: per key, the last completed TTLCache.set since clear

vars == <<_store, now, last, fill, threads, written>>

---------------------------------------------------------------------------
(* Bounds and configuration *)

CACHE_TTL == 30         \* CACHE_TTL_SECONDS default

MaxTicks == 2           \* the clock stops after this many ticks

TickStep == CACHE_TTL   \* one tick of the clock, in seconds

MaxTime == MaxTicks * TickStep

None == "None"

NoValue == [absent |-> TRUE]

---------------------------------------------------------------------------
(* Currency codes: app/schemas.py *)

\* the lower-case letters the inputs use, and their upper case
UpperOf == ("u" :> "U") @@ ("s" :> "S") @@ ("d" :> "D") @@ ("e" :> "E") @@ ("r" :> "R")

\* [A-Z] restricted to the letters the inputs use
UpperLetters == {"U", "S", "D", "E", "R"}

\* a bug: only the first character is put in upper case
_to_upper_first(v) ==
    [i \in 1..Len(v) |-> IF i = 1 /\ v[i] \in DOMAIN UpperOf THEN UpperOf[v[i]] ELSE v[i]]

\* str.upper(), character by character
_to_upper(v) == [i \in 1..Len(v) |-> IF v[i] \in DOMAIN UpperOf THEN UpperOf[v[i]] ELSE v[i]]

\* a bug: the pattern ^[A-Z]{1,3}$ and no min_length
CurrencyField_short(v) == Len(v) <= 3 /\ \A i \in 1..Len(v) : v[i] \in UpperLetters

\* Field(pattern=r"^[A-Z]{3}$", min_length=3, max_length=3)
CurrencyField(v) == Len(v) = 3 /\ \A i \in 1..Len(v) : v[i] \in UpperLetters

\* Annotated[str, BeforeValidator(_to_upper), Field(...)]: the validated value, or NoValue
Currency(v) ==
    LET upper == _to_upper(v)
    IN  IF CurrencyField(upper) THEN upper ELSE NoValue

\* Annotated[float, Field(ge=0)]
NonNegativeAmount(a) == a >= 0

UsD == <<"U", "s", "D">>
USD == <<"U", "S", "D">>
EUR == <<"E", "U", "R">>
US == <<"U", "S">>
USdollar == <<"U", "S", "$">>

\* the strings callers pass as currency codes
RawCodes == {UsD, USD, EUR, US, USdollar}

\* the amounts callers pass
Amounts == {-5, 0, 2}

---------------------------------------------------------------------------
(* The provider: app/provider.py *)

Rates(r) == [c \in {USD, EUR} |-> r]

\* what client.get(url, params) gives back: status code and JSON body
Responses ==
    { [status |-> 200, data |-> ("rates" :> Rates(2)) @@ ("date" :> "2025-11-02")],
      [status |-> 200, data |-> ("rates" :> Rates(3))],
      [status |-> 200, data |-> ("oops" :> "no rates here")],
      [status |-> 500, data |-> ("rates" :> Rates(2)) @@ ("date" :> "2025-11-02")] }

\* a bug: raise_for_status() is not called
fetch_rate_unchecked(resp, base, target) ==
    IF "rates" \notin DOMAIN resp.data THEN [raised |-> TRUE, error |-> "KeyError"]
    ELSE IF target \notin DOMAIN resp.data["rates"] THEN [raised |-> TRUE, error |-> "KeyError"]
    ELSE [raised |-> FALSE,
          rate |-> resp.data["rates"][target],
          fetched_at |-> IF "date" \in DOMAIN resp.data THEN resp.data["date"] ELSE None]

\* fetch_rate: raise_for_status(), data["rates"][target], data.get("date")
fetch_rate(resp, base, target) ==
    IF resp.status >= 400 THEN [raised |-> TRUE, error |-> "HTTPStatusError"]
    ELSE IF "rates" \notin DOMAIN resp.data THEN [raised |-> TRUE, error |-> "KeyError"]
    ELSE IF target \notin DOMAIN resp.data["rates"] THEN [raised |-> TRUE, error |-> "KeyError"]
    ELSE [raised |-> FALSE,
          rate |-> resp.data["rates"][target],
          fetched_at |-> IF "date" \in DOMAIN resp.data THEN resp.data["date"] ELSE None]

---------------------------------------------------------------------------
(* TTLCache: app/cache.py *)

\* a bug: the age compared with < instead of <=
TTLFresh_strict(ts, t) == t - ts < CACHE_TTL

\* a bug: the operands of the subtraction swapped
TTLFresh_swapped(ts, t) == ts - t <= CACHE_TTL

\* time.time() - ts <= self._ttl
TTLFresh(ts, t) == t - ts <= CACHE_TTL

\* a bug: the expired entry is left in the store
StorePop_kept(st, key) == st

\* self._store.pop(key, None)
StorePop(st, key) == [k \in DOMAIN st \ {key} |-> st[k]]

\* a bug: an entry already under the key is kept (setdefault)
StoreAssign_first(st, key, ts, value) ==
    [k \in DOMAIN st \cup {key} |-> IF k \in DOMAIN st THEN st[k] ELSE <<ts, value>>]

\* a bug: a capacity of one entry, the write evicting every other key
StoreAssign_capped(st, key, ts, value) == [k \in {key} |-> <<ts, value>>]

\* a bug: the write is dropped when the key holds an entry with a later timestamp
StoreAssign_newest(st, key, ts, value) ==
    [k \in DOMAIN st \cup {key} |->
        IF k # key THEN st[k]
        ELSE IF key \in DOMAIN st /\ st[key][1] > ts THEN st[key]
        ELSE <<ts, value>>]

\* self._store[key] = (ts, value)
StoreAssign(st, key, ts, value) ==
    [k \in DOMAIN st \cup {key} |-> IF k = key THEN <<ts, value>> ELSE st[k]]

\* a bug: sliding expiration, a hit stamping the entry anew
TTLCache_get_sliding(st, key, t) ==
    IF key \notin DOMAIN st THEN [value |-> NoValue, store |-> st]
    ELSE IF TTLFresh(st[key][1], t)
         THEN [value |-> st[key][2], store |-> StoreAssign(st, key, t, st[key][2])]
         ELSE [value |-> NoValue, store |-> StorePop(st, key)]

\* TTLCache.get run to completion by one caller, time.time() returning t
TTLCache_get(st, key, t) ==
    IF key \notin DOMAIN st THEN [value |-> NoValue, store |-> st]
    ELSE LET ts == st[key][1]
             value == st[key][2]
         IN  IF TTLFresh(ts, t) THEN [value |-> value, store |-> st]
             ELSE [value |-> NoValue, store |-> StorePop(st, key)]

\* TTLCache.set run to completion by one caller, time.time() returning t
TTLCache_set(st, key, value, t) == StoreAssign(st, key, t, value)

\* a bug: clear leaves the entries in place
TTLCache_clear_kept(st) == st

\* TTLCache.clear
TTLCache_clear(st) == << >>

---------------------------------------------------------------------------
(* Response models: app/schemas.py *)

RateResponse(base, target, rate, fetched_at) ==
    [base |-> base, target |-> target, rate |-> rate, fetched_at |-> fetched_at,
     provider |-> "frankfurter.dev"]

ConvertResponse(from_currency, to_currency, amount, converted, rate, fetched_at) ==
    [from_currency |-> from_currency, to_currency |-> to_currency, amount |-> amount,
     converted |-> converted, rate |-> rate, fetched_at |-> fetched_at,
     provider |-> "frankfurter.dev"]

---------------------------------------------------------------------------
(* The tools: app/main.py.  Each operator runs one call to completion for  *)
(* one caller: st is the store it finds, t1 what time.time() returns in    *)
(* the tool's cache read (t1b in the cache read of the get_rate that       *)
(* convert delegates to), resp what the provider answers if asked, t2      *)
(* what time.time() returns in the cache write.  The outcome is the        *)
(* status ("ok" or the exception raised), the response, the store left     *)
(* behind and the numbers of provider requests and cache reads made.       *)

Outcome(status, res, st, nfetch, nreads) ==
    [status |-> status, res |-> res, store |-> st, nfetch |-> nfetch, nreads |-> nreads]

\* raise RuntimeError(f"Failed to fetch rate from provider: {e}") from e
RuntimeError(e) == [message |-> <<"Failed to fetch rate from provider: ", e>>, cause |-> e]

\* a bug: the key built from the pair in a canonical order
CacheKey_unordered(base, target) ==
    IF base[1] = "E" THEN <<"rate:">> \o base \o <<":">> \o target
    ELSE <<"rate:">> \o target \o <<":">> \o base

\* ck = f"rate:{base}:{target}"
CacheKey(base, target) == <<"rate:">> \o base \o <<":">> \o target

\* a bug: the short-circuit is never taken
get_rate_same_never(base, target) == FALSE

\* if base == target
get_rate_same(base, target) == base = target

\* if from_currency == to_currency
convert_same(from_currency, to_currency) == from_currency = to_currency

\* if hit: a dict is true unless it is empty, None is false
Truthy(hit) == hit # NoValue /\ hit # << >>

\* a bug: the rate added instead of multiplied
Converted_added(amount, rate) == amount + rate

\* converted = float(amount) * rate
Converted(amount, rate) == amount * rate

\* a bug: base and target swapped in the payload
Payload_swapped(base, target, rate, fetched_at) ==
    [base |-> target, target |-> base, rate |-> rate, fetched_at |-> fetched_at]

\* payload: dict[str, Any]
Payload(base, target, rate, fetched_at) ==
    [base |-> base, target |-> target, rate |-> rate, fetched_at |-> fetched_at]

get_rate(st, base_in, target_in, t1, resp, t2) ==
    LET base == Currency(base_in)
        target == Currency(target_in)
    IN  IF base = NoValue \/ target = NoValue
        THEN Outcome("ValidationError", NoValue, st, 0, 0)
        ELSE IF get_rate_same(base, target)
        THEN Outcome("ok", RateResponse(base, target, 1, None), st, 0, 0)
        ELSE LET ck == CacheKey(base, target)
                 got == TTLCache_get(st, ck, t1)
                 hit == got.value
             IN  IF Truthy(hit)
                 THEN Outcome("ok",
                              RateResponse(hit.base, hit.target, hit.rate, hit.fetched_at),
                              got.store, 0, 1)
                 ELSE LET f == fetch_rate(resp, base, target)
                      IN  IF f.raised
                          THEN Outcome("RuntimeError", RuntimeError(f.error), got.store, 1, 1)
                          ELSE LET payload == Payload(base, target, f.rate, f.fetched_at)
                               IN  Outcome("ok",
                                           RateResponse(payload.base, payload.target,
                                                        payload.rate, payload.fetched_at),
                                           TTLCache_set(got.store, ck, payload, t2), 1, 1)

\* a bug: convert calls get_rate a second time when the first call failed
convert_retry(st, amount, from_in, to_in, t1, t1b, resp, t2) ==
    LET from_currency == Currency(from_in)
        to_currency == Currency(to_in)
    IN  IF ~NonNegativeAmount(amount) \/ from_currency = NoValue \/ to_currency = NoValue
        THEN Outcome("ValidationError", NoValue, st, 0, 0)
        ELSE IF convert_same(from_currency, to_currency)
        THEN Outcome("ok",
                     ConvertResponse(from_currency, to_currency, amount, amount, 1, None),
                     st, 0, 0)
        ELSE LET got == TTLCache_get(st, CacheKey(from_currency, to_currency), t1)
                 hit == got.value
                 first == get_rate(got.store, from_currency, to_currency, t1b, resp, t2)
                 again == get_rate(first.store, from_currency, to_currency, t1b, resp, t2)
                 rate_resp == IF first.status = "ok" THEN first
                              ELSE [again EXCEPT !.nfetch = first.nfetch + again.nfetch,
                                                 !.nreads = first.nreads + again.nreads]
             IN  IF Truthy(hit)
                 THEN Outcome("ok",
                              ConvertResponse(from_currency, to_currency, amount,
                                              Converted(amount, hit.rate), hit.rate, hit.fetched_at),
                              got.store, 0, 1)
                 ELSE IF rate_resp.status # "ok"
                 THEN Outcome(rate_resp.status, rate_resp.res, rate_resp.store,
                              rate_resp.nfetch, 1 + rate_resp.nreads)
                 ELSE Outcome("ok",
                              ConvertResponse(from_currency, to_currency, amount,
                                              Converted(amount, rate_resp.res.rate),
                                              rate_resp.res.rate, rate_resp.res.fetched_at),
                              rate_resp.store, rate_resp.nfetch, 1 + rate_resp.nreads)

convert(st, amount, from_in, to_in, t1, t1b, resp, t2) ==
    LET from_currency == Currency(from_in)
        to_currency == Currency(to_in)
    IN  IF ~NonNegativeAmount(amount) \/ from_currency = NoValue \/ to_currency = NoValue
        THEN Outcome("ValidationError", NoValue, st, 0, 0)
        ELSE IF convert_same(from_currency, to_currency)
        THEN Outcome("ok",
                     ConvertResponse(from_currency, to_currency, amount, amount, 1, None),
                     st, 0, 0)
        ELSE LET ck == CacheKey(from_currency, to_currency)
                 got == TTLCache_get(st, ck, t1)
                 hit == got.value
             IN  IF Truthy(hit)
                 THEN Outcome("ok",
                              ConvertResponse(from_currency, to_currency, amount,
                                              Converted(amount, hit.rate), hit.rate, hit.fetched_at),
                              got.store, 0, 1)
                 ELSE LET rate_resp == get_rate(got.store, from_currency, to_currency,
                                                t1b, resp, t2)
                      IN  IF rate_resp.status # "ok"
                          THEN Outcome(rate_resp.status, rate_resp.res, rate_resp.store,
                                       rate_resp.nfetch, 1 + rate_resp.nreads)
                          ELSE Outcome("ok",
                                       ConvertResponse(from_currency, to_currency, amount,
                                                       Converted(amount, rate_resp.res.rate),
                                                       rate_resp.res.rate,
                                                       rate_resp.res.fetched_at),
                                       rate_resp.store, rate_resp.nfetch,
                                       1 + rate_resp.nreads)

---------------------------------------------------------------------------
(* The same engine in one file: main.py, with a module-level dict for the  *)
(* cache and the request to the provider written inside get_rate.  The     *)
(* operators take the dict as st and give it back in the outcome.          *)

main_CACHE_TTL == 30

\* v.upper()
main_to_upper(v) == [i \in 1..Len(v) |-> IF v[i] \in DOMAIN UpperOf THEN UpperOf[v[i]] ELSE v[i]]

\* Annotated[str, BeforeValidator(_to_upper), Field(pattern=r"^[A-Z]{3}$", ...)]
main_Currency(v) ==
    LET upper == main_to_upper(v)
    IN  IF Len(upper) = 3 /\ \A i \in 1..3 : upper[i] \in UpperLetters THEN upper ELSE NoValue

\* Annotated[float, Field(ge=0)]
main_NonNegativeAmount(a) == a >= 0

main_RateResponse(base, target, rate, fetched_at) ==
    [base |-> base, target |-> target, rate |-> rate, fetched_at |-> fetched_at,
     provider |-> "frankfurter.dev"]

\* ConvertResponse.model_validate of a dict keyed by the aliases "from" and "to":
\* the values land in the fields from_currency and to_currency
main_ConvertResponse(data) ==
    [from_currency |-> data["from"], to_currency |-> data["to"], amount |-> data["amount"],
     converted |-> data["converted"], rate |-> data["rate"],
     fetched_at |-> data["fetched_at"], provider |-> "frankfurter.dev"]

\* _cache_get(k), time.time() returning t
main_cache_get(st, k, t) ==
    IF k \notin DOMAIN st THEN [value |-> NoValue, store |-> st]
    ELSE IF t - st[k][1] <= main_CACHE_TTL THEN [value |-> st[k][2], store |-> st]
    ELSE [value |-> NoValue, store |-> [j \in DOMAIN st \ {k} |-> st[j]]]

\* _cache_set(k, v), time.time() returning t
main_cache_set(st, k, v, t) == [j \in DOMAIN st \cup {k} |-> IF j = k THEN <<t, v>> ELSE st[j]]

\* _cache.clear(), as the tests' fixture calls it
main_cache_clear(st) == << >>

\* the try block of get_rate: c.get, raise_for_status, data["rates"][target], data.get("date")
main_fetch(resp, base, target) ==
    IF resp.status >= 400 THEN [raised |-> TRUE, error |-> "HTTPStatusError"]
    ELSE IF "rates" \notin DOMAIN resp.data THEN [raised |-> TRUE, error |-> "KeyError"]
    ELSE IF target \notin DOMAIN resp.data["rates"] THEN [raised |-> TRUE, error |-> "KeyError"]
    ELSE [raised |-> FALSE,
          rate |-> resp.data["rates"][target],
          fetched_at |-> IF "date" \in DOMAIN resp.data THEN resp.data["date"] ELSE None]

\* raise RuntimeError(f"Failed to fetch rate from Frankfurter: {e}") from e
main_RuntimeError(e) == [message |-> <<"Failed to fetch rate from Frankfurter: ", e>>, cause |-> e]

main_get_rate(st, base_in, target_in, t1, resp, t2) ==
    LET base == main_Currency(base_in)
        target == main_Currency(target_in)
    IN  IF base = NoValue \/ target = NoValue
        THEN Outcome("ValidationError", NoValue, st, 0, 0)
        ELSE IF base = target
        THEN Outcome("ok", main_RateResponse(base, target, 1, None), st, 0, 0)
        ELSE LET ck == <<"rate:">> \o base \o <<":">> \o target
                 got == main_cache_get(st, ck, t1)
                 hit == got.value
             IN  IF hit # NoValue /\ hit # << >>
                 THEN Outcome("ok",
                              main_RateResponse(hit.base, hit.target, hit.rate, hit.fetched_at),
                              got.store, 0, 1)
                 ELSE LET f == main_fetch(resp, base, target)
                      IN  IF f.raised
                          THEN Outcome("RuntimeError", main_RuntimeError(f.error),
                                       got.store, 1, 1)
                          ELSE LET payload == [base |-> base, target |-> target,
                                               rate |-> f.rate, fetched_at |-> f.fetched_at]
                               IN  Outcome("ok",
                                           main_RateResponse(payload.base, payload.target,
                                                             payload.rate, payload.fetched_at),
                                           main_cache_set(got.store, ck, payload, t2), 1, 1)

main_convert(st, amount, from_in, to_in, t1, t1b, resp, t2) ==
    LET from_ == main_Currency(from_in)
        to == main_Currency(to_in)
    IN  IF ~main_NonNegativeAmount(amount) \/ from_ = NoValue \/ to = NoValue
        THEN Outcome("ValidationError", NoValue, st, 0, 0)
        ELSE IF from_ = to
        THEN Outcome("ok",
                     main_ConvertResponse([from |-> from_, to |-> to, amount |-> amount,
                                           converted |-> amount, rate |-> 1,
                                           fetched_at |-> None]),
                     st, 0, 0)
        ELSE LET ck == <<"rate:">> \o from_ \o <<":">> \o to
                 got == main_cache_get(st, ck, t1)
                 hit == got.value
             IN  IF hit # NoValue /\ hit # << >>
                 THEN Outcome("ok",
                              main_ConvertResponse([from |-> from_, to |-> to,
                                                    amount |-> amount,
                                                    converted |-> amount * hit.rate,
                                                    rate |-> hit.rate,
                                                    fetched_at |-> hit.fetched_at]),
                              got.store, 0, 1)
                 ELSE LET rate_resp == main_get_rate(got.store, from_, to, t1b, resp, t2)
                      IN  IF rate_resp.status # "ok"
                          THEN Outcome(rate_resp.status, rate_resp.res, rate_resp.store,
                                       rate_resp.nfetch, 1 + rate_resp.nreads)
                          ELSE Outcome("ok",
                                       main_ConvertResponse(
                                           [from |-> from_, to |-> to, amount |-> amount,
                                            converted |-> amount * rate_resp.res.rate,
                                            rate |-> rate_resp.res.rate,
                                            fetched_at |-> rate_resp.res.fetched_at]),
                                       rate_resp.store, rate_resp.nfetch,
                                       1 + rate_resp.nreads)

---------------------------------------------------------------------------
(* History: what the callers and the provider did, kept apart from the code *)

\* the currency a caller's string spells, letter case aside
Denotes == (UsD :> USD) @@ (USD :> USD) @@ (EUR :> EUR)

Spells(v) == v \in DOMAIN Denotes

PairOf(b, t) == <<Denotes[b], Denotes[t]>>

Exact(b, t) == b = Denotes[b] /\ t = Denotes[t]

\* a miss-then-fetch that succeeded: the record returned and the time of the cache write
FillOf(b, t, o, t2) ==
    [ts |-> t2, rate |-> o.res.rate, fetched_at |-> o.res.fetched_at]

\* the pair was filled, not cleared since, and the fill is older than the TTL at time t
Expired(pair, t) == pair \in DOMAIN fill /\ t - fill[pair].ts > CACHE_TTL

\* the pair was filled, not cleared since, and the fill is within the TTL at time t
Fresh(pair, t) == pair \in DOMAIN fill /\ t - fill[pair].ts <= CACHE_TTL

Filled(b, t, o) == o.status = "ok" /\ o.nfetch = 1 /\ Spells(b) /\ Spells(t)

NoCall == [op |-> "none"]

\* the summary of a call that was rejected: the tool and whether its codes were
\* well-formed (so that the amount was the reason)
RejectedCall(op, b, t) ==
    [op |-> op, status |-> "ValidationError", codes |-> Spells(b) /\ Spells(t)]

\* the summary of a call that was accepted: the tool, the pair its arguments spell,
\* whether they spell it in upper case, the outcome's status and provider requests,
\* and whether the call found the pair's fill expired
AcceptedCall(op, b, t, o) ==
    [op |-> op, pair |-> PairOf(b, t), exact |-> Exact(b, t),
     status |-> o.status, nfetch |-> o.nfetch, renewed |-> Expired(PairOf(b, t), now)]

CallOf(op, b, t, o) ==
    IF o.status = "ValidationError" THEN RejectedCall(op, b, t)
    ELSE AcceptedCall(op, b, t, o)

\* how long the provider takes to answer
Delays == {0, TickStep}

---------------------------------------------------------------------------
(* One caller at a time: every tool call runs to completion.  The          *)
(* provider's answer and the time it takes are drawn when the call asks    *)
(* the provider; a call that does not ask it takes no time.                *)

Threads == {1, 2}

Idle == [pc |-> "idle"]

Init ==
    /\ _store = << >>
    /\ now = 0
    /\ last = NoCall
    /\ fill = << >>
    /\ threads = [p \in Threads |-> Idle]
    /\ written = << >>

\* the call returns (or raises) with outcome o at time t2
Returns(op, b, t, o, t2) ==
    /\ _store' = o.store
    /\ now' = t2
    /\ last' = CallOf(op, b, t, o)
    /\ fill' = IF Filled(b, t, o) THEN (PairOf(b, t) :> FillOf(b, t, o, t2)) @@ fill
               ELSE fill
    /\ UNCHANGED <<threads, written>>

AnyResponse == CHOOSE resp \in Responses : TRUE

\* what a call can come to in the current state: the outcome o, the provider's answer
\* resp (read only if the call asks the provider) and the time t2 at which it returns
Run(o, resp, t2) == [o |-> o, resp |-> resp, t2 |-> t2]

GetRateRuns(b, t) ==
    LET probe == get_rate(_store, b, t, now, AnyResponse, now)
    IN  IF probe.nfetch = 0 THEN {Run(probe, AnyResponse, now)}
        ELSE {Run(get_rate(_store, b, t, now, x[1], now + x[2]), x[1], now + x[2]) :
                x \in Responses \X Delays}

ConvertRuns(a, b, t) ==
    LET probe == convert(_store, a, b, t, now, now, AnyResponse, now)
    IN  IF probe.nfetch = 0 THEN {Run(probe, AnyResponse, now)}
        ELSE {Run(convert(_store, a, b, t, now, now, x[1], now + x[2]), x[1], now + x[2]) :
                x \in Responses \X Delays}

\* a caller runs get_rate(b, t)
GetRate ==
    \E b \in RawCodes, t \in RawCodes :
        \E r \in GetRateRuns(b, t) :
            /\ r.t2 <= MaxTime
            /\ Returns("get_rate", b, t, r.o, r.t2)

\* a caller runs convert(a, b, t)
Convert ==
    \E a \in Amounts, b \in RawCodes, t \in RawCodes :
        \E r \in ConvertRuns(a, b, t) :
            /\ r.t2 <= MaxTime
            /\ Returns("convert", b, t, r.o, r.t2)

\* _cache.clear(), as the tests' fixture calls it between calls
Clear ==
    /\ _store' = TTLCache_clear(_store)
    /\ fill' = << >>
    /\ UNCHANGED <<now, last, threads, written>>

\* time passes
Tick ==
    /\ now + TickStep <= MaxTime
    /\ now' = now + TickStep
    /\ UNCHANGED <<_store, last, fill, threads, written>>

Next == GetRate \/ Convert \/ Clear \/ Tick

Spec == Init /\ [][Next]_vars

---------------------------------------------------------------------------
(* The cache on its own, one caller at a time: get, set and clear of       *)
(* app/cache.py on the keys and values callers store, each run to          *)
(* completion.                                                             *)

\* the keys callers use
CacheKeys == {CacheKey(USD, EUR), CacheKey(EUR, USD)}

\* the values callers store: two payloads and an empty dict
CacheValues == {Payload(USD, EUR, 2, None), Payload(USD, EUR, 3, "2025-11-02"), << >>}

\* the entry (or its absence) under key k in the store st
EntryOf(st, k) == IF k \in DOMAIN st THEN st[k] ELSE NoValue

\* a caller runs _cache.get(k)
CacheGet ==
    \E k \in CacheKeys :
        \E g \in {TTLCache_get(_store, k, now)} :
            /\ _store' = g.store
            /\ last' = [op |-> "get", key |-> k, value |-> g.value]
            /\ UNCHANGED <<now, fill, threads, written>>

\* a caller runs _cache.set(k, v)
CacheSet ==
    \E k \in CacheKeys, v \in CacheValues :
        /\ _store' = TTLCache_set(_store, k, v, now)
        /\ written' = (k :> [ts |-> now, value |-> v]) @@ written
        /\ last' = [op |-> "set", key |-> k, over |-> EntryOf(_store, k)]
        /\ UNCHANGED <<now, fill, threads>>

\* a caller runs _cache.clear()
CacheClear ==
    /\ _store' = TTLCache_clear(_store)
    /\ written' = << >>
    /\ last' = [op |-> "clear"]
    /\ UNCHANGED <<now, fill, threads>>

CacheNext == CacheGet \/ CacheSet \/ CacheClear \/ Tick

CacheSpec == Init /\ [][CacheNext]_vars

---------------------------------------------------------------------------
(* The cache under concurrent callers.  TTLCache takes no lock, so a       *)
(* caller can be preempted between the statements of get and of set: each  *)
(* statement that touches the store or the clock is one step.              *)

\* the key the concurrent callers contend for
SharedKeys == {CacheKey(USD, EUR)}

\* item = self._store.get(key); if not item: return None
get_item(p) ==
    /\ threads[p].pc = "idle"
    /\ \E k \in SharedKeys :
          IF k \notin DOMAIN _store
          THEN /\ last' = [op |-> "TTLCache.get", at |-> now, key |-> k, item |-> NoValue,
                           removed |-> NoValue, value |-> NoValue]
               /\ UNCHANGED threads
          ELSE /\ threads' = [threads EXCEPT ![p] = [pc |-> "get_ttl", key |-> k,
                                                    item |-> _store[k]]]
               /\ UNCHANGED last
    /\ UNCHANGED <<_store, now, fill, written>>

\* ts, value = item; if time.time() - ts <= self._ttl: return value
get_ttl(p) ==
    /\ threads[p].pc = "get_ttl"
    /\ IF TTLFresh(threads[p].item[1], now)
       THEN /\ threads' = [threads EXCEPT ![p] = Idle]
            /\ last' = [op |-> "TTLCache.get", at |-> now, key |-> threads[p].key,
                        item |-> threads[p].item, removed |-> NoValue,
                        value |-> threads[p].item[2]]
       ELSE /\ threads' = [threads EXCEPT ![p].pc = "get_pop"]
            /\ UNCHANGED last
    /\ UNCHANGED <<_store, now, fill, written>>

\* self._store.pop(key, None); return None
get_pop(p) ==
    /\ threads[p].pc = "get_pop"
    /\ _store' = StorePop(_store, threads[p].key)
    /\ threads' = [threads EXCEPT ![p] = Idle]
    /\ last' = [op |-> "TTLCache.get", at |-> now, key |-> threads[p].key,
                item |-> threads[p].item, removed |-> EntryOf(_store, threads[p].key),
                value |-> NoValue]
    /\ UNCHANGED <<now, fill, written>>

\* the right-hand side of self._store[key] = (time.time(), value)
set_time(p) ==
    /\ threads[p].pc = "idle"
    /\ \E k \in SharedKeys, v \in CacheValues :
          threads' = [threads EXCEPT ![p] = [pc |-> "set_item", key |-> k, value |-> v,
                                            ts |-> now]]
    /\ UNCHANGED <<_store, now, last, fill, written>>

\* the assignment self._store[key] = (ts, value)
set_item(p) ==
    /\ threads[p].pc = "set_item"
    /\ _store' = StoreAssign(_store, threads[p].key, threads[p].ts, threads[p].value)
    /\ written' = (threads[p].key :> [ts |-> threads[p].ts, value |-> threads[p].value])
                  @@ written
    /\ threads' = [threads EXCEPT ![p] = Idle]
    /\ UNCHANGED <<now, last, fill>>

\* self._store.clear()
clear(p) ==
    /\ threads[p].pc = "idle"
    /\ _store' = TTLCache_clear(_store)
    /\ written' = << >>
    /\ UNCHANGED <<now, last, fill, threads>>

ThreadNext ==
    \/ \E p \in Threads : get_item(p)
    \/ \E p \in Threads : get_ttl(p)
    \/ \E p \in Threads : get_pop(p)
    \/ \E p \in Threads : set_time(p)
    \/ \E p \in Threads : set_item(p)
    \/ \E p \in Threads : clear(p)
    \/ Tick

ThreadSpec == Init /\ [][ThreadNext]_vars

---------------------------------------------------------------------------
(* The tools under concurrent callers.  Neither the tools nor the cache    *)
(* take a lock, so a caller can be preempted between any two statements    *)
(* that touch the store, the clock or the provider: the statements of      *)
(* TTLCache.get and TTLCache.set are steps of their own, and a caller      *)
(* waits in "fetching" from the request to the provider until its answer.  *)

\* the codes and the amount the concurrent callers pass
SharedCodes == {UsD, EUR}

SharedAmounts == {2}

\* a bug: the cache's lock is held by a caller that waits for the provider
CacheFree_locked(p) == \A q \in Threads \ {p} : threads[q].pc # "fetching"

\* the cache takes no lock: a caller's cache statement never waits for another caller
CacheFree(p) == TRUE

\* the callers in the middle of a miss: between their cache read and their cache write
Missing(key) ==
    {q \in Threads : /\ threads[q].pc \in {"fetching", "set_time", "set_item"}
                     /\ threads[q].key = key}

\* the callers waiting for the provider
Fetching == {q \in Threads : threads[q].pc = "fetching"}

\* a caller after its call ended without touching the store or the provider
\* (rejected, or the same currency twice) or with the provider's failure
Left == Idle

\* a caller after its call returned from a cache hit: the key it read, and who was
\* waiting for the provider from before the call began until it returned
Hit(c) == [pc |-> "done", how |-> "hit", key |-> c.key, during |-> c.during]

\* a caller after its call returned from a fetch: the record its response was built
\* from, and whether its miss overlapped another caller's miss on the same key
Fetched(c, record) ==
    [pc |-> "done", how |-> "fetched", record |-> record, raced |-> c.raced]

\* a caller enters get_rate or convert: validation, then the same-currency return
call(p) ==
    /\ threads[p].pc \in {"idle", "done"}
    /\ \E op \in {"get_rate", "convert"}, a \in SharedAmounts,
          b \in SharedCodes, t \in SharedCodes :
          \E base \in {Currency(b)}, target \in {Currency(t)} :
              \E c \in {[base |-> base, target |-> target,
                         key |-> << >>, raced |-> FALSE, during |-> Fetching \ {p}]} :
                  threads' = [threads EXCEPT ![p] =
                      IF ~NonNegativeAmount(a) \/ base = NoValue \/ target = NoValue
                      THEN Left
                      ELSE IF get_rate_same(base, target)
                      THEN Left
                      ELSE [c EXCEPT !.key = CacheKey(base, target)]
                           @@ [pc |-> "get_item", stage |-> op]]
    /\ UNCHANGED <<_store, now, last, fill, written>>

\* the caller's cache read came back empty: convert goes on to get_rate, which reads
\* the cache itself; get_rate goes on to the provider
Missed(p) ==
    IF threads[p].stage = "convert"
    THEN [threads EXCEPT ![p].pc = "get_item", ![p].stage = "get_rate"]
    ELSE [q \in Threads |->
            IF q = p THEN [threads[p] EXCEPT !.pc = "fetching", !.during = {},
                                             !.raced = Missing(threads[p].key) # {}]
            ELSE IF q \in Missing(threads[p].key) THEN [threads[q] EXCEPT !.raced = TRUE]
            ELSE threads[q]]

\* hit = _cache.get(ck): item = self._store.get(key); if not item: return None
req_get_item(p) ==
    /\ threads[p].pc = "get_item"
    /\ CacheFree(p)
    /\ IF threads[p].key \notin DOMAIN _store
       THEN threads' = Missed(p)
       ELSE threads' = [threads EXCEPT ![p] =
                           [pc |-> "get_ttl", item |-> _store[threads[p].key]] @@ @]
    /\ UNCHANGED <<_store, now, last, fill, written>>

\* ts, value = item; if time.time() - ts <= self._ttl: return value; if hit: return
req_get_ttl(p) ==
    /\ threads[p].pc = "get_ttl"
    /\ CacheFree(p)
    /\ IF TTLFresh(threads[p].item[1], now) /\ Truthy(threads[p].item[2])
       THEN threads' = [threads EXCEPT ![p] =
                Hit(threads[p])]
       ELSE IF TTLFresh(threads[p].item[1], now)
       THEN threads' = Missed(p)
       ELSE threads' = [threads EXCEPT ![p].pc = "get_pop"]
    /\ UNCHANGED <<_store, now, last, fill, written>>

\* self._store.pop(key, None); return None
req_get_pop(p) ==
    /\ threads[p].pc = "get_pop"
    /\ CacheFree(p)
    /\ _store' = StorePop(_store, threads[p].key)
    /\ threads' = Missed(p)
    /\ UNCHANGED <<now, last, fill, written>>

\* fetch_rate returns or raises: except Exception -> RuntimeError, else the payload
req_fetch(p) ==
    /\ threads[p].pc = "fetching"
    /\ \E resp \in Responses :
          \E f \in {fetch_rate(resp, threads[p].base, threads[p].target)} :
              threads' = [q \in Threads |->
                  IF q = p
                  THEN IF f.raised THEN Left
                       ELSE [pc |-> "set_time",
                             payload |-> Payload(threads[p].base, threads[p].target,
                                                 f.rate, f.fetched_at)] @@ threads[p]
                  ELSE IF "during" \in DOMAIN threads[q]
                  THEN [threads[q] EXCEPT !.during = @ \ {p}]
                  ELSE threads[q]]
    /\ UNCHANGED <<_store, now, last, fill, written>>

\* _cache.set(ck, payload): the right-hand side (time.time(), value)
req_set_time(p) ==
    /\ threads[p].pc = "set_time"
    /\ CacheFree(p)
    /\ threads' = [threads EXCEPT ![p] = [pc |-> "set_item", ts |-> now] @@ @]
    /\ UNCHANGED <<_store, now, last, fill, written>>

\* _cache.set(ck, payload): the assignment self._store[key] = ...; return
req_set_item(p) ==
    /\ threads[p].pc = "set_item"
    /\ CacheFree(p)
    /\ _store' = StoreAssign(_store, threads[p].key, threads[p].ts, threads[p].payload)
    /\ written' = (threads[p].key :> [ts |-> threads[p].ts, value |-> threads[p].payload])
                  @@ written
    /\ threads' = [threads EXCEPT ![p] =
             Fetched(threads[p], threads[p].payload)]
    /\ UNCHANGED <<now, last, fill>>

RequestNext ==
    \/ \E p \in Threads : call(p)
    \/ \E p \in Threads : req_get_item(p)
    \/ \E p \in Threads : req_get_ttl(p)
    \/ \E p \in Threads : req_get_pop(p)
    \/ \E p \in Threads : req_fetch(p)
    \/ \E p \in Threads : req_set_time(p)
    \/ \E p \in Threads : req_set_item(p)
    \/ Tick

RequestSpec == Init /\ [][RequestNext]_vars

---------------------------------------------------------------------------
(* Properties of the tools, one caller at a time.  Each is stated in every  *)
(* reachable state about every call a caller can make there: the call's    *)
(* outcome is what the tool's operator gives on the store of that state.   *)

\* the caller's strings spell two different currencies
ValidPair(b, t) == Spells(b) /\ Spells(t) /\ Denotes[b] # Denotes[t]

\* the caller's strings spell the same currency twice
SamePair(b, t) == Spells(b) /\ Spells(t) /\ Denotes[b] = Denotes[t]

\* the provider's answer carries no rate for the target: a non-success status or
\* no entry for the target under "rates"
ProviderFails(resp, target) ==
    \/ resp.status >= 400
    \/ "rates" \notin DOMAIN resp.data
    \/ target \notin DOMAIN resp.data["rates"]

\* the record a successful answer carries for the pair
RecordIn(resp, base, target) ==
    [base |-> base, target |-> target, rate |-> resp.data["rates"][target],
     fetched_at |-> IF "date" \in DOMAIN resp.data THEN resp.data["date"] ELSE None]

\* the key of the pair two strings spell
KeyOf(b, t) == CacheKey(Denotes[b], Denotes[t])

\* the calls a caller can make for the strings b and t, and what each can come to:
\* get_rate(b, t) and convert(a, b, t) for every amount a >= 0
RunsOf(b, t) ==
    GetRateRuns(b, t) \cup UNION {ConvertRuns(a, b, t) : a \in {x \in Amounts : x >= 0}}

\* C1: after a call missed and fetched successfully (and no clear since), any
\* get_rate or convert for the same ordered pair made while now - insertedAt <= TTL
\* asks the provider zero times and returns the rate the filling call returned.
C1_CachePopulation ==
    \A b \in RawCodes, t \in RawCodes :
        (ValidPair(b, t) /\ Fresh(PairOf(b, t), now)) =>
            \A r \in RunsOf(b, t) :
                /\ r.o.status = "ok"
                /\ r.o.nfetch = 0
                /\ r.o.res.rate = fill[PairOf(b, t)].rate

\* a convert call hit the entry of an earlier fill at the very end of its TTL window
C1_Witness ==
    /\ last.op = "convert"
    /\ last.status = "ok"
    /\ last.nfetch = 0
    /\ last.pair \in DOMAIN fill
    /\ now - fill[last.pair].ts = CACHE_TTL

\* what C2 says of one call's outcome o, the provider answering resp at time t2
ExpiryOutcome(o, b, t, resp, t2) ==
    /\ o.nfetch = 1
    /\ ProviderFails(resp, Denotes[t]) => KeyOf(b, t) \notin DOMAIN o.store
    /\ ~ProviderFails(resp, Denotes[t]) =>
          /\ o.status = "ok"
          /\ KeyOf(b, t) \in DOMAIN o.store
          /\ o.store[KeyOf(b, t)] = <<t2, RecordIn(resp, Denotes[b], Denotes[t])>>
          /\ o.res.rate = resp.data["rates"][Denotes[t]]

\* C2: once more than TTL has elapsed since a pair's entry was inserted, the next
\* get_rate or convert for the pair is a miss: it asks the provider exactly once and
\* (the provider answering) replaces the entry by the new record stamped with the
\* time of the write.
C2_Expiry ==
    \A b \in RawCodes, t \in RawCodes :
        (ValidPair(b, t) /\ Expired(PairOf(b, t), now)) =>
            \A r \in RunsOf(b, t) : ExpiryOutcome(r.o, b, t, r.resp, r.t2)

\* a call found its pair's fill expired, fetched, and the new entry is in the store
C2_Witness ==
    /\ last.op \in {"get_rate", "convert"}
    /\ last.status = "ok"
    /\ last.renewed
    /\ last.nfetch = 1
    /\ CacheKey(last.pair[1], last.pair[2]) \in DOMAIN _store
    /\ _store[CacheKey(last.pair[1], last.pair[2])][1] = fill[last.pair].ts
    /\ fill[last.pair].ts > CACHE_TTL

\* C3: for a valid code X in any letter case, get_rate(X, X) returns rate 1.0 and
\* fetched_at null, convert(amount, X, X) returns converted = amount, rate 1.0 and
\* fetched_at null; the provider is not asked and the cache is neither read nor
\* changed.
C3_IdentityShortCircuit ==
    \A b \in RawCodes, t \in RawCodes :
        SamePair(b, t) =>
            /\ \A r \in RunsOf(b, t) :
                  /\ r.o.status = "ok"
                  /\ r.o.res.rate = 1
                  /\ r.o.res.fetched_at = None
                  /\ r.o.nfetch = 0
                  /\ r.o.nreads = 0
                  /\ r.o.store = _store
            /\ \A a \in Amounts :
                  a >= 0 => \A r \in ConvertRuns(a, b, t) : r.o.res.converted = a

\* an identity call in mixed letter case returned while the store held an expired entry
C3_Witness ==
    /\ last.op \in {"get_rate", "convert"}
    /\ last.status = "ok"
    /\ last.pair[1] = last.pair[2]
    /\ ~last.exact
    /\ last.nfetch = 0
    /\ \E k \in DOMAIN _store : now - _store[k][1] > CACHE_TTL

\* what C4 says of one call's outcome o on the store st
FailureOutcome(o, st, b, t) ==
    /\ o.status = "RuntimeError"
    /\ KeyOf(b, t) \notin DOMAIN o.store
    /\ \A k \in (DOMAIN st \cup DOMAIN o.store) \ {KeyOf(b, t)} :
          k \in DOMAIN st /\ k \in DOMAIN o.store /\ o.store[k] = st[k]
    /\ \A resp \in Responses :
          get_rate(o.store, b, t, now, resp, now).nfetch = 1

\* C4: when the provider fails during get_rate (or the get_rate convert delegates to),
\* the call fails with the one provider error; afterwards the cache holds no entry
\* for the pair's key, every other key's entry is unchanged, and the next call for
\* the pair asks the provider again.
C4_FailureWrapping ==
    \A b \in RawCodes, t \in RawCodes :
        ValidPair(b, t) =>
            \A r \in RunsOf(b, t) :
                (r.o.nfetch > 0 /\ ProviderFails(r.resp, Denotes[t])) =>
                    FailureOutcome(r.o, _store, b, t)

\* a call failed on the provider; its key is not in the store, another key's entry is
C4_Witness ==
    /\ last.op \in {"get_rate", "convert"}
    /\ last.status = "RuntimeError"
    /\ last.nfetch = 1
    /\ CacheKey(last.pair[1], last.pair[2]) \notin DOMAIN _store
    /\ CacheKey(last.pair[2], last.pair[1]) \in DOMAIN _store

\* what C5 says of one rejected call's outcome o
RejectedOutcome(o) ==
    /\ o.status = "ValidationError"
    /\ o.nfetch = 0
    /\ o.nreads = 0
    /\ o.store = _store

\* C5: a call with a code that is not three letters after uppercasing, or a convert
\* with amount < 0, fails with a validation error and leaves the store and the
\* provider untouched; amount = 0 is accepted.
C5_ValidationNoSideEffects ==
    \A b \in RawCodes, t \in RawCodes :
        /\ (~Spells(b) \/ ~Spells(t)) =>
              \A r \in GetRateRuns(b, t) : RejectedOutcome(r.o)
        /\ \A a \in Amounts :
              /\ (~Spells(b) \/ ~Spells(t) \/ a < 0) =>
                    \A r \in ConvertRuns(a, b, t) : RejectedOutcome(r.o)
              /\ (Spells(b) /\ Spells(t) /\ a = 0) =>
                    \A r \in ConvertRuns(a, b, t) : r.o.status # "ValidationError"

\* a convert with well-formed codes was rejected (its amount was negative) while the
\* store held an entry
C5_Witness ==
    /\ last.op = "convert"
    /\ last.status = "ValidationError"
    /\ last.codes
    /\ DOMAIN _store # {}

\* C6: under any interleaving of get, set and clear by concurrent callers, a get
\* removes only the entry it observed as expired; in particular the entry a get
\* removes is never one still within its TTL (one a concurrent set stored after
\* the get read the key).
C6_NeverEvictsFresh ==
    (last.op = "TTLCache.get" /\ last.removed # NoValue) =>
        last.at - last.removed[1] > CACHE_TTL

\* what C7 says of the get(k) a caller makes in the current state
GetAfterSet(k, g) ==
    /\ (k \in DOMAIN written /\ now - written[k].ts <= CACHE_TTL) =>
          g.value = written[k].value
    /\ (k \in DOMAIN written /\ now - written[k].ts > CACHE_TTL) =>
          g.value = NoValue /\ k \notin DOMAIN g.store
    /\ k \notin DOMAIN written => g.value = NoValue

\* C7: a get(key) after set(key, value) with no set or clear in between returns
\* exactly value while now - insertedAt <= TTL (the boundary included), and returns
\* absent and removes the entry once now - insertedAt > TTL; a get on a key that was
\* never set returns absent.
C7_GetAfterSet ==
    \A k \in CacheKeys : GetAfterSet(k, TTLCache_get(_store, k, now))

\* a get returned the value of a set made exactly TTL seconds earlier
C7_Witness ==
    /\ last.op = "get"
    /\ last.key \in DOMAIN written
    /\ now - written[last.key].ts = CACHE_TTL
    /\ last.value = written[last.key].value
    /\ last.key \in DOMAIN _store

\* C8: get_rate and convert called with codes in any mixture of letter cases do what
\* the all-uppercase call does (same outcome, same store left behind, so the same
\* cache key, and a hit on the entry the other filled), and the base/target they
\* return are the uppercase codes.
C8_CaseNormalization ==
    \A b \in RawCodes, t \in RawCodes :
        (Spells(b) /\ Spells(t)) =>
            /\ ~Exact(b, t) => GetRateRuns(b, t) = GetRateRuns(Denotes[b], Denotes[t])
            /\ \A r \in GetRateRuns(b, t) :
                  r.o.status = "ok" =>
                    r.o.res.base = Denotes[b] /\ r.o.res.target = Denotes[t]
            /\ \A a \in Amounts :
                  /\ ~Exact(b, t) =>
                        ConvertRuns(a, b, t) = ConvertRuns(a, Denotes[b], Denotes[t])
                  /\ \A r \in ConvertRuns(a, b, t) :
                        r.o.status = "ok" =>
                            /\ r.o.res.from_currency = Denotes[b]
                            /\ r.o.res.to_currency = Denotes[t]

\* a call in mixed letter case hit the entry that a fill left in the store
C8_Witness ==
    /\ last.op \in {"get_rate", "convert"}
    /\ last.status = "ok"
    /\ ~last.exact
    /\ last.nfetch = 0
    /\ last.pair \in DOMAIN fill
    /\ CacheKey(last.pair[1], last.pair[2]) \in DOMAIN _store

\* C9: for every amount >= 0 and pair from != to, every convert call returns the rate
\* and fetched_at that get_rate returns on the same store, at the same time and with
\* the same provider answer, with converted = amount * rate; it fails when get_rate
\* fails, asks the provider as often and leaves the same store behind.
C9_ConversionEquivalence ==
    \A b \in RawCodes, t \in RawCodes :
        ValidPair(b, t) =>
            \A a \in Amounts :
                a >= 0 =>
                    \A r \in ConvertRuns(a, b, t) :
                        \E c \in {r.o}, g \in {get_rate(_store, b, t, now, r.resp, r.t2)} :
                            /\ c.status = g.status
                            /\ c.store = g.store
                            /\ c.nfetch = g.nfetch
                            /\ c.status = "ok" =>
                                  /\ c.res.rate = g.res.rate
                                  /\ c.res.fetched_at = g.res.fetched_at
                                  /\ c.res.converted = a * g.res.rate
                                  /\ c.res.amount = a

\* a convert call returned by delegating to get_rate, and the store holds a fresh
\* entry (which the next convert reads directly)
C9_Witness ==
    /\ last.op = "convert"
    /\ last.status = "ok"
    /\ last.nfetch = 1
    /\ last.renewed
    /\ \E k \in DOMAIN _store : now - _store[k][1] <= CACHE_TTL

\* C10: for two distinct codes A and B the pairs (A, B) and (B, A) have distinct keys,
\* and a call for one of them, whether it hits, fills, finds its entry expired or
\* fails, leaves the other's entry as it is, and with it what a read of the other's
\* key returns (a hit or a miss).
C10_OrderingSensitivity ==
    \A b \in RawCodes, t \in RawCodes :
        ValidPair(b, t) =>
            /\ KeyOf(b, t) # KeyOf(t, b)
            /\ \A r \in RunsOf(b, t) :
                  /\ EntryOf(r.o.store, KeyOf(t, b)) = EntryOf(_store, KeyOf(t, b))
                  /\ TTLCache_get(r.o.store, KeyOf(t, b), r.t2).value
                        = TTLCache_get(_store, KeyOf(t, b), r.t2).value

\* a call found its pair's entry expired and refilled it while the reverse pair's
\* earlier entry stayed in the store
C10_Witness ==
    /\ last.op \in {"get_rate", "convert"}
    /\ last.status = "ok"
    /\ last.renewed
    /\ last.nfetch = 1
    /\ CacheKey(last.pair[1], last.pair[2]) \in DOMAIN _store
    /\ CacheKey(last.pair[2], last.pair[1]) \in DOMAIN _store
    /\ _store[CacheKey(last.pair[2], last.pair[1])][1]
          < _store[CacheKey(last.pair[1], last.pair[2])][1]

\* C11: in every reachable state, on the store that clear leaves behind every get
\* returns absent, whatever the entries' ages were, and the next get_rate or convert
\* for any pair base != target asks the provider.
C11_ClearRemovesAll ==
    \E st \in {TTLCache_clear(_store)} :
        /\ \A k \in DOMAIN _store \cup CacheKeys : TTLCache_get(st, k, now).value = NoValue
        /\ \A b \in RawCodes, t \in RawCodes :
              ValidPair(b, t) =>
                \A resp \in Responses :
                    /\ get_rate(st, b, t, now, resp, now).nfetch = 1
                    /\ \A a \in Amounts :
                          a >= 0 => convert(st, a, b, t, now, now, resp, now).nfetch = 1

\* clear has run after a call filled an entry: the store is empty although the last
\* call wrote its record, and that record would still have been within its TTL
C11_Witness ==
    /\ last.op \in {"get_rate", "convert"}
    /\ last.status = "ok"
    /\ last.nfetch = 1
    /\ _store = << >>
    /\ fill = << >>
    /\ now > 0

\* the clock readings of a get that follows a set made now
LaterReadings == {now, now + TickStep, now + 2 * TickStep}

\* what C12 says of the store st2 that set(k, v2) leaves when run now
Overwritten(k, v2, st2) ==
    /\ DOMAIN st2 = DOMAIN _store \cup {k}
    /\ st2[k] = <<now, v2>>
    /\ \A t \in LaterReadings :
          \E g \in {TTLCache_get(st2, k, t)} :
              /\ t - now <= CACHE_TTL => g.value = v2
              /\ t - now > CACHE_TTL => g.value = NoValue
              /\ written[k].value # v2 => g.value # written[k].value

\* C12: after set(key, v1), a set(key, v2) leaves exactly one entry for key, the one
\* holding v2 stamped with the time of the second set; a get returns v2 (never v1)
\* while its clock reading is within TTL of the second set, whatever the age of the
\* first.
C12_LastWriteWins ==
    \A k \in CacheKeys, v2 \in CacheValues :
        k \in DOMAIN written => Overwritten(k, v2, TTLCache_set(_store, k, v2, now))

\* a set replaced an entry holding another value; the replaced entry would be expired
\* by now, the new one is within its TTL and is what the store holds
C12_Witness ==
    /\ last.op = "set"
    /\ last.over # NoValue
    /\ last.key \in DOMAIN _store
    /\ last.over[2] # _store[last.key][2]
    /\ now - last.over[1] > CACHE_TTL
    /\ now - _store[last.key][1] = CACHE_TTL

\* the entry under k goes away in this step only through clear or through a get on k
\* that found it older than the TTL
RemovedLazily(k) ==
    (k \in DOMAIN _store /\ k \notin DOMAIN _store') =>
        /\ now' = now
        /\ \/ last'.op = "clear"
           \/ /\ last'.op = "get"
              /\ last'.key = k
              /\ last'.value = NoValue
              /\ now - _store[k][1] > CACHE_TTL

\* the entry under k is created or replaced in this step only through a set on k
WrittenByOwnSet(k) ==
    (k \in DOMAIN _store' /\ EntryOf(_store', k) # EntryOf(_store, k)) =>
        /\ now' = now
        /\ last'.op = "set"
        /\ last'.key = k
        /\ _store'[k][1] = now

\* C15: in every step of the cache (get, set, clear, time passing) an entry changes
\* only through a set on its own key and goes away only through a get on its own
\* key that finds it expired, or through clear: get and set leave every other key's
\* entry as it is, and an expired entry stays while time advances and other keys
\* are read and written.
C15_LazyPerKeyEviction ==
    [][\A k \in CacheKeys : RemovedLazily(k) /\ WrittenByOwnSet(k)]_vars

\* a set on one key was made when another key's entry was already expired, and that
\* expired entry is still in the store
C15_Witness ==
    /\ last.op = "set"
    /\ last.key \in DOMAIN _store
    /\ \E k \in DOMAIN _store \ {last.key} :
          _store[last.key][1] - _store[k][1] > CACHE_TTL

\* what C14 says of one call's run r, the call reading the cache reads times on a miss
SingleAttempt(r, t, reads) ==
    /\ r.o.nfetch <= 1
    /\ r.o.nfetch = 1 => r.o.nreads = reads
    /\ (r.o.nfetch = 1 /\ ProviderFails(r.resp, Denotes[t])) =>
          r.o.status = "RuntimeError"
    /\ (r.o.nfetch = 1 /\ ~ProviderFails(r.resp, Denotes[t])) => r.o.status = "ok"

\* C14: every get_rate or convert call asks the provider at most once; when that one
\* request fails the call ends in the error without a second request; a convert that
\* misses reads the cache twice (its own read and get_rate's) and still asks the
\* provider once.
C14_NoRetries ==
    \A b \in RawCodes, t \in RawCodes :
        /\ \A r \in GetRateRuns(b, t) : SingleAttempt(r, t, 1)
        /\ \A a \in Amounts : \A r \in ConvertRuns(a, b, t) : SingleAttempt(r, t, 2)

\* a convert call missed, asked the provider once and ended in the error, leaving
\* the store without an entry
C14_Witness ==
    /\ last.op = "convert"
    /\ last.status = "RuntimeError"
    /\ last.nfetch = 1
    /\ _store = << >>
    /\ now > 0

\* what C17 says of one run r that returned a record for the pair b, t
FreshRecord(r, b, t) ==
    /\ r.o.nfetch = 0 =>
          /\ KeyOf(b, t) \in DOMAIN _store
          /\ r.o.res.rate = _store[KeyOf(b, t)][2].rate
          /\ r.o.res.fetched_at = _store[KeyOf(b, t)][2].fetched_at
          /\ r.o.store = _store
          /\ PairOf(b, t) \in DOMAIN fill
          /\ _store[KeyOf(b, t)][1] = fill[PairOf(b, t)].ts
          /\ r.o.res.rate = fill[PairOf(b, t)].rate
          /\ r.o.res.fetched_at = fill[PairOf(b, t)].fetched_at
          /\ now - fill[PairOf(b, t)].ts <= CACHE_TTL
    /\ r.o.nfetch = 1 =>
          /\ r.o.res.rate = RecordIn(r.resp, Denotes[b], Denotes[t]).rate
          /\ r.o.res.fetched_at = RecordIn(r.resp, Denotes[b], Denotes[t]).fetched_at

\* C17: a cache hit in get_rate or convert returns the rate and fetched_at of the
\* stored record and leaves the store, the entry's timestamp included, as it was;
\* every record returned for a pair base != target comes from a fetch made by the
\* call itself or from one whose record was written at most TTL before the call's
\* cache read.
C17_NoSlidingExpiration ==
    \A b \in RawCodes, t \in RawCodes :
        ValidPair(b, t) =>
            \A r \in RunsOf(b, t) : r.o.status = "ok" => FreshRecord(r, b, t)

\* a get_rate call hit an entry at the very end of its TTL window, and the entry
\* still carries the timestamp of the fill
C17_Witness ==
    /\ last.op = "get_rate"
    /\ last.status = "ok"
    /\ last.nfetch = 0
    /\ last.pair \in DOMAIN fill
    /\ CacheKey(last.pair[1], last.pair[2]) \in DOMAIN _store
    /\ _store[CacheKey(last.pair[1], last.pair[2])][1] = fill[last.pair].ts
    /\ now - fill[last.pair].ts = CACHE_TTL
    /\ fill[last.pair].ts > 0

Alphabet ==
    {"A", "B", "C", "D", "E", "F", "G", "H", "I", "J", "K", "L", "M",
     "N", "O", "P", "Q", "R", "S", "T", "U", "V", "W", "X", "Y", "Z"}

\* three uppercase letters
IsCode(c) == Len(c) = 3 /\ \A i \in 1..3 : c[i] \in Alphabet

\* the entry under key k agrees with its key
Consistent(k, entry) ==
    /\ IsCode(entry[2].base)
    /\ IsCode(entry[2].target)
    /\ entry[2].base # entry[2].target
    /\ k = <<"rate:">> \o entry[2].base \o <<":">> \o entry[2].target

\* an entry is created or replaced in this step only by a get_rate or convert call
\* for the entry's pair that asked the provider and returned, at the time it returned
WrittenByFetch(k) ==
    (k \in DOMAIN _store' /\ EntryOf(_store', k) # EntryOf(_store, k)) =>
        /\ last'.op \in {"get_rate", "convert"}
        /\ last'.status = "ok"
        /\ last'.nfetch = 1
        /\ k = <<"rate:">> \o last'.pair[1] \o <<":">> \o last'.pair[2]
        /\ _store'[k][1] = now'

\* C18: in every reachable state every entry's key is "rate:" + base + ":" + target
\* of the record stored under it, both codes are three uppercase letters and differ;
\* and the store is written only by a call whose fetch succeeded.
C18_KeyRecordConsistency ==
    /\ [](\A k \in DOMAIN _store : Consistent(k, _store[k]))
    /\ [][\A k \in DOMAIN _store' : WrittenByFetch(k)]_vars

\* both orders of a pair are stored, the last of them written by a mixed-case call
\* after identical-pair and failing calls could have written
C18_Witness ==
    /\ last.op \in {"get_rate", "convert"}
    /\ last.status = "ok"
    /\ last.nfetch = 1
    /\ ~last.exact
    /\ Cardinality(DOMAIN _store) = 2
    /\ \A k \in DOMAIN _store : Consistent(k, _store[k])

\* the outcomes of the two engines for one call, the dict of main.py holding what
\* the TTLCache of app/main.py holds
BothGetRate(b, t, resp, d) ==
    [app |-> get_rate(_store, b, t, now, resp, now + d),
     main |-> main_get_rate(_store, b, t, now, resp, now + d)]

BothConvert(a, b, t, resp, d) ==
    [app |-> convert(_store, a, b, t, now, now, resp, now + d),
     main |-> main_convert(_store, a, b, t, now, now, resp, now + d)]

\* the two outcomes agree in everything but the text of the error raised
SameButMessage(both) ==
    /\ both.app.status = both.main.status
    /\ both.app.store = both.main.store
    /\ both.app.nfetch = both.main.nfetch
    /\ both.app.nreads = both.main.nreads
    /\ both.app.status # "RuntimeError" => both.app.res = both.main.res
    /\ both.app.status = "RuntimeError" => both.app.res.cause = both.main.res.cause

\* in every reachable state the two engines, started on the same cache contents, answer
\* every call with the same result or the same kind and cause of error, ask the provider
\* as often, and leave the same cache contents; so they do along every sequence of steps
EnginesAgreeButMessage ==
    /\ \A b \in RawCodes, t \in RawCodes, resp \in Responses, d \in Delays :
          /\ SameButMessage(BothGetRate(b, t, resp, d))
          /\ \A a \in Amounts : SameButMessage(BothConvert(a, b, t, resp, d))
    /\ main_cache_clear(_store) = TTLCache_clear(_store)

\* C19: the engine of main.py and the engine of app/main.py, run on the same steps and
\* provider answers, give the same results or error outcomes, make the same provider
\* requests and keep the same cache contents.
C19_EnginesAgree ==
    /\ \A b \in RawCodes, t \in RawCodes, resp \in Responses, d \in Delays :
          /\ BothGetRate(b, t, resp, d).app = BothGetRate(b, t, resp, d).main
          /\ \A a \in Amounts :
                BothConvert(a, b, t, resp, d).app = BothConvert(a, b, t, resp, d).main
    /\ main_cache_clear(_store) = TTLCache_clear(_store)

---------------------------------------------------------------------------
(* Properties of the tools under concurrent callers *)

\* the two callers have both returned from a fetch for the same key, and their misses
\* overlapped
Stampeded(p, q) ==
    /\ p # q
    /\ threads[p].pc = "done" /\ threads[p].how = "fetched" /\ threads[p].raced
    /\ threads[q].pc = "done" /\ threads[q].how = "fetched" /\ threads[q].raced
    /\ threads[p].record.base = threads[q].record.base
    /\ threads[p].record.target = threads[q].record.target

\* C13: two concurrent calls for the same pair can both miss and both ask the
\* provider; when both have succeeded and returned, both have written and the cache
\* holds one entry for the key, with the value and the timestamp of the write that
\* happened last.
C13_StampedeLastWriteWins ==
    \A p \in Threads, q \in Threads :
        Stampeded(p, q) =>
            \E k \in {CacheKey(threads[p].record.base, threads[p].record.target)} :
                /\ k \in DOMAIN written
                /\ k \in DOMAIN _store
                /\ _store[k] = <<written[k].ts, written[k].value>>
                /\ written[k].value \in {threads[p].record, threads[q].record}

\* both callers missed on the same key at the same time, fetched different records
\* and wrote them
C13_Witness ==
    \E p \in Threads, q \in Threads :
        /\ Stampeded(p, q)
        /\ threads[p].record # threads[q].record
        /\ _store[CacheKey(threads[p].record.base, threads[p].record.target)][2]
              = threads[p].record

\* a statement of the cache that caller p is at
CacheStep(p) ==
    \/ req_get_item(p)
    \/ req_get_ttl(p)
    \/ req_get_pop(p)
    \/ req_set_time(p)
    \/ req_set_item(p)

\* C16: while a caller waits for the provider, every other caller that is at a
\* statement of the cache can execute it, and an idle caller can begin a call: a
\* call for another pair whose entry is fresh runs to its return without waiting
\* for the fetch.
C16_FetchDoesNotBlock ==
    \A p \in Threads :
        (Fetching \ {p} # {}) =>
            /\ threads[p].pc \in {"get_item", "get_ttl", "get_pop", "set_time", "set_item"}
                  => ENABLED CacheStep(p)
            /\ threads[p].pc \in {"idle", "done"} => ENABLED call(p)

\* a caller began a call for another pair after the other caller had asked the
\* provider, and returned from a cache hit while the other is still waiting
C16_Witness ==
    \E p \in Threads, q \in Threads :
        /\ threads[p].pc = "fetching"
        /\ threads[q].pc = "done"
        /\ threads[q].how = "hit"
        /\ p \in threads[q].during
        /\ threads[q].key # threads[p].key
        /\ threads[q].key \in DOMAIN _store

====
